---- MODULE Spec2Model ----
(***************************************************************************)
(* Model of src/bond_tracker.py (High Yield Bond Spread Tracker).          *)
(*                                                                         *)
(* Spread values are the program's floats with two decimals, held here as  *)
(* integers in hundredths of a percentage point: 4.5 is 450, 0.12 is 12.   *)
(* Differences are exact here; the program's float subtraction can land an *)
(* ulp off a two-decimal difference, which can matter only for a change of *)
(* exactly 0.12. Dates (ISO strings in the program) are day numbers; a     *)
(* response lists its observations newest first, one day apart.            *)
(***************************************************************************)
EXTENDS Integers, Sequences, FiniteSets

VARIABLES
    env,              \* FRED_API_KEY, TELEGRAM_BOT_TOKEN, TELEGRAM_CHAT_ID set or not
    archivo,          \* content of STATE_FILE
    archivo0,         \* content of STATE_FILE when the current run started
    pc,               \* position of main() / of the evaluator harness
    llamador,         \* who called obtener_datos_fred: "main" or "heartbeat"
    intento,          \* loop index of obtener_datos_fred (0-based)
    peticiones,       \* requests.get calls made by the current fetch call
    esperas,          \* time.sleep(2) calls made by the current fetch call
    fallos,           \* RequestExceptions caught by the current fetch call
    ultima,           \* what the response received last by the current fetch call was
    salida,           \* how the current fetch call ended, once it has
    datos,            \* observations returned to main (newest first)
    estado_anterior,  \* value returned by cargar_estado
    resultado,        \* value returned by analizar_datos
    error,            \* exception that ended the try block of main, if any
    entregado,        \* outcome of the alert's enviar_telegram call
    posts,            \* requests.post calls of this run, per kind of message
    lecturas,         \* open(STATE_FILE, 'r') calls of this run
    escrituras,       \* open(STATE_FILE, 'w') calls of this run
    codigo            \* exit code of main: -1 while running

vars == <<env, archivo, archivo0, pc, llamador, intento, peticiones, esperas,
          fallos, ultima, salida, datos, estado_anterior, resultado, error, entregado, posts,
          lecturas, escrituras, codigo>>

-----------------------------------------------------------------------------
(* Program constants *)

UMBRAL_CAMBIO_DIARIO == 12
\* The high threshold before the adjustment noted at line 22 (antes: 5.0).
UMBRAL_SPREAD_ALTO_antes == 500

UMBRAL_SPREAD_ALTO == 450
UMBRAL_SPREAD_CRITICO == 600
max_intentos == 3
RANGO_MIN == 50
RANGO_MAX == 3000
DIAS_TENDENCIA == 5

(* Thresholds of src/test_bot.py, test_5_threshold_logic *)
UMBRAL_CAMBIO == 15
UMBRAL_ALTO == 500
UMBRAL_CRITICO == 650

-----------------------------------------------------------------------------
(* Bounds of the model *)

MaxObs == 5       \* longest observation window handed to the evaluator
MaxCrudo == 2     \* 'limit' of main's request to the series source (dias=10)

FechaHoy == 20    \* date of the newest point of a response

-----------------------------------------------------------------------------
(* Values *)

\* Python's None, as returned by cargar_estado and as "no message".
None == [clase |-> "None", fecha |-> 0, valor |-> 0]

\* STATE_FILE does not exist.
Ausente == [clase |-> "ausente", fecha |-> 0, valor |-> 0]

\* STATE_FILE exists and open() or json.load() raises on it.
Ilegible == [clase |-> "ilegible", fecha |-> 0, valor |-> 0]

\* STATE_FILE parses to a JSON value that Python treats as false: {}, [], 0, null.
Vacio == [clase |-> "vacio", fecha |-> 0, valor |-> 0]

\* STATE_FILE parses to a JSON value that Python treats as true and that has
\* no 'fecha' or no 'valor': {"x": 1}, [1], 7.
Incompleto == [clase |-> "incompleto", fecha |-> 0, valor |-> 0]

\* STATE_FILE holds {fecha, valor, ultima_ejecucion}.
Snapshot(f, v) == [clase |-> "snapshot", fecha |-> f, valor |-> v]

Abs(x) == IF x < 0 THEN 0 - x ELSE x

\* Python truthiness of a loaded state: `not estado_anterior`.
Falsy(e) == e.clase \in {"None", "vacio"}

Alerta(t, c) == [tipo |-> t, critico |-> c]

SinMensaje ==
    [tipo |-> "None", fecha |-> 0, actual |-> 0, anterior |-> 0,
     fecha_anterior |-> 0, cambio |-> 0, alertas |-> <<>>]

Retorno(t, m, c) ==
    [excepcion |-> "ninguna", tiene_alertas |-> t, mensaje |-> m, es_critico |-> c]

Lanza(e) ==
    [excepcion |-> e, tiene_alertas |-> FALSE, mensaje |-> SinMensaje,
     es_critico |-> FALSE]

SinResultado == Lanza("sin_llamar")

-----------------------------------------------------------------------------
(* State store *)

cargar_estado(a) ==
    IF a.clase \in {"ausente", "ilegible"} THEN None ELSE a

-----------------------------------------------------------------------------
(* Alert evaluator: analizar_datos *)

\* 1. Cambio brusco diario
CambioBrusco(cambio) ==
    IF Abs(cambio) >= UMBRAL_CAMBIO_DIARIO
    THEN <<Alerta(IF cambio > 0 THEN "SUBIDA_BRUSCA" ELSE "BAJADA_BRUSCA", FALSE)>>
    ELSE <<>>

\* Slip: the level comparisons strict instead of inclusive.
Nivel_estricto(spread_actual) ==
    IF spread_actual > UMBRAL_SPREAD_CRITICO
    THEN <<Alerta("NIVEL_CRITICO", TRUE)>>
    ELSE IF spread_actual > UMBRAL_SPREAD_ALTO
         THEN <<Alerta("NIVEL_ALTO", FALSE)>>
         ELSE <<>>

\* 2. Nivel critico / nivel alto
Nivel(spread_actual) ==
    IF spread_actual >= UMBRAL_SPREAD_CRITICO
    THEN <<Alerta("NIVEL_CRITICO", TRUE)>>
    ELSE IF spread_actual >= UMBRAL_SPREAD_ALTO
         THEN <<Alerta("NIVEL_ALTO", FALSE)>>
         ELSE <<>>

\* Slip: the upward crossing strict on the current value.
CruceArriba_estricto(spread_anterior, spread_actual) ==
    IF spread_anterior < UMBRAL_SPREAD_ALTO /\ spread_actual > UMBRAL_SPREAD_ALTO
    THEN <<Alerta("CRUCE_ALTO_ARRIBA", FALSE)>>
    ELSE <<>>

\* 3. Cruce de umbrales importantes
CruceArriba(spread_anterior, spread_actual) ==
    IF spread_anterior < UMBRAL_SPREAD_ALTO /\ spread_actual >= UMBRAL_SPREAD_ALTO
    THEN <<Alerta("CRUCE_ALTO_ARRIBA", FALSE)>>
    ELSE <<>>

CruceAbajo(spread_anterior, spread_actual) ==
    IF spread_anterior >= UMBRAL_SPREAD_ALTO /\ spread_actual < UMBRAL_SPREAD_ALTO
    THEN <<Alerta("CRUCE_ALTO_ABAJO", FALSE)>>
    ELSE <<>>

\* Slip: the critical crossing also fires from the threshold itself.
CruceCritico_inclusivo(spread_anterior, spread_actual) ==
    IF spread_anterior <= UMBRAL_SPREAD_CRITICO /\ spread_actual >= UMBRAL_SPREAD_CRITICO
    THEN <<Alerta("CRUCE_CRITICO", TRUE)>>
    ELSE <<>>

CruceCritico(spread_anterior, spread_actual) ==
    IF spread_anterior < UMBRAL_SPREAD_CRITICO /\ spread_actual >= UMBRAL_SPREAD_CRITICO
    THEN <<Alerta("CRUCE_CRITICO", TRUE)>>
    ELSE <<>>

\* ultimos_5 = [d['valor'] for d in datos_actuales[:5]]
Ultimos5(datos_actuales) ==
    [i \in 1..DIAS_TENDENCIA |-> datos_actuales[i].valor]

\* Slip: the window read as if it were oldest first.
Subiendo5_invertido(u) == \A i \in 1..(DIAS_TENDENCIA - 1) : u[i] < u[i + 1]

\* all(ultimos_5[i] > ultimos_5[i+1] for i in range(4)): every day above the day before
Subiendo5(u) == \A i \in 1..(DIAS_TENDENCIA - 1) : u[i] > u[i + 1]

\* all(ultimos_5[i] < ultimos_5[i+1] for i in range(4))
Bajando5(u) == \A i \in 1..(DIAS_TENDENCIA - 1) : u[i] < u[i + 1]

\* Slip: two rises out of four taken for a moderate uptrend.
Subiendo4de5_dos(u) ==
    Cardinality({i \in 1..(DIAS_TENDENCIA - 1) : u[i] > u[i + 1]}) >= 2

\* sum(1 for i in range(4) if ultimos_5[i] > ultimos_5[i+1]) >= 3
Subiendo4de5(u) ==
    Cardinality({i \in 1..(DIAS_TENDENCIA - 1) : u[i] > u[i + 1]}) >= 3

\* Slip: the sustained uptrend is critical from the high threshold on.
Tendencia_inclusiva(datos_actuales) ==
    IF Len(datos_actuales) >= DIAS_TENDENCIA
    THEN LET u == Ultimos5(datos_actuales) IN
         IF Subiendo5(u)
         THEN <<Alerta("TENDENCIA_ALCISTA_SOSTENIDA", u[1] >= UMBRAL_SPREAD_ALTO)>>
         ELSE IF Bajando5(u)
              THEN <<Alerta("TENDENCIA_BAJISTA_SOSTENIDA", FALSE)>>
              ELSE IF Subiendo4de5(u)
                   THEN <<Alerta("TENDENCIA_ALCISTA", FALSE)>>
                   ELSE <<>>
    ELSE <<>>

\* 4. Tendencia sostenida (si hay suficientes datos)
Tendencia(datos_actuales) ==
    IF Len(datos_actuales) >= DIAS_TENDENCIA
    THEN LET u == Ultimos5(datos_actuales) IN
         IF Subiendo5(u)
         THEN <<Alerta("TENDENCIA_ALCISTA_SOSTENIDA", u[1] > UMBRAL_SPREAD_ALTO)>>
         ELSE IF Bajando5(u)
              THEN <<Alerta("TENDENCIA_BAJISTA_SOSTENIDA", FALSE)>>
              ELSE IF Subiendo4de5(u)
                   THEN <<Alerta("TENDENCIA_ALCISTA", FALSE)>>
                   ELSE <<>>
    ELSE <<>>

MensajeInicio(actual) ==
    [tipo |-> "inicio", fecha |-> actual.fecha, actual |-> actual.valor,
     anterior |-> 0, fecha_anterior |-> 0, cambio |-> 0, alertas |-> <<>>]

MensajeAlerta(actual, previo, alertas) ==
    [tipo |-> "alerta", fecha |-> actual.fecha, actual |-> actual.valor,
     anterior |-> previo.valor, fecha_anterior |-> previo.fecha,
     cambio |-> actual.valor - previo.valor, alertas |-> alertas]

\* Slip: the first report takes its critical flag from the level.
SinEstadoAnterior_nivel(actual) ==
    Retorno(TRUE, MensajeInicio(actual), actual.valor >= UMBRAL_SPREAD_CRITICO)

\* Line 160: the percentage is computed 'if spread_anterior != 0 else 0'; the
\* guard is taken when the prior value is zero.
GuardaCero(spread_anterior) == spread_anterior = 0

\* Lines 146-153: no prior state, report the current value only.
SinEstadoAnterior(actual) == Retorno(TRUE, MensajeInicio(actual), FALSE)

analizar_datos(datos_actuales, previo) ==
    IF datos_actuales = <<>>
    THEN Retorno(FALSE, SinMensaje, FALSE)
    ELSE LET actual == datos_actuales[1] IN
         IF Falsy(previo)
         THEN SinEstadoAnterior(actual)
         ELSE IF previo.clase # "snapshot"
              THEN Lanza("KeyError")
              ELSE LET spread_actual == actual.valor
                       spread_anterior == previo.valor
                       cambio == spread_actual - spread_anterior
                       alertas == CambioBrusco(cambio)
                                  \o Nivel(spread_actual)
                                  \o CruceArriba(spread_anterior, spread_actual)
                                  \o CruceAbajo(spread_anterior, spread_actual)
                                  \o CruceCritico(spread_anterior, spread_actual)
                                  \o Tendencia(datos_actuales)
                       es_critico == \E i \in 1..Len(alertas) : alertas[i].critico
                   IN IF alertas # <<>>
                      THEN Retorno(TRUE, MensajeAlerta(actual, previo, alertas), es_critico)
                      ELSE Retorno(FALSE, SinMensaje, FALSE)

\* src/test_bot.py, test_5_threshold_logic: the rule the test applies, with
\* the thresholds the test sets for itself.
should_alert(actual, anterior) ==
    \/ Abs(actual - anterior) >= UMBRAL_CAMBIO
    \/ actual >= UMBRAL_ALTO
    \/ actual >= UMBRAL_CRITICO

-----------------------------------------------------------------------------
(* Data fetcher: obtener_datos_fred *)

\* Values the series source reports in a run: the ends of the band 0.5 .. 30.0
\* (50 raises no alert, 3000 is critical) and a value outside it on each side.
ValoresCrudos == {0, 50, 3000, 3500}

\* obs['value'] == '.'
Punto == [disponible |-> FALSE, valor |-> 0]

Crudos == {Punto} \cup {[disponible |-> TRUE, valor |-> v] : v \in ValoresCrudos}

SeqHasta(S, n) == UNION {[1..k -> S] : k \in 0..n}

\* data['observations'] with sort_order desc: the i-th point is i-1 days old.
Observations(cs) ==
    [i \in 1..Len(cs) |->
        [date |-> FechaHoy - (i - 1), disponible |-> cs[i].disponible,
         valor |-> cs[i].valor]]

\* What one requests.get of the series source can produce.
FallosTransporte == {"ConnectionError", "Timeout", "HTTPError"}

\* 'limit': dias caps the points of a response.
Respuestas(dias) ==
    {[tipo |-> t, observations |-> <<>>] : t \in FallosTransporte \cup {"sin_clave"}}
    \cup {[tipo |-> "json", observations |-> Observations(cs)] :
             cs \in SeqHasta(Crudos, dias)}

\* main asks for dias=10 (line 353), the heartbeat for dias=5 (line 306): the
\* model keeps the heartbeat's window the shorter one.
DiasMain == MaxCrudo

DiasHeartbeat == MaxCrudo - 1

Dias(quien) == IF quien = "main" THEN DiasMain ELSE DiasHeartbeat

\* Lines 55-61: keep the available points, in order.
RECURSIVE Convertir(_)
Convertir(obs) ==
    IF obs = <<>>
    THEN <<>>
    ELSE (IF Head(obs).disponible
          THEN <<[fecha |-> Head(obs).date, valor |-> Head(obs).valor]>>
          ELSE <<>>) \o Convertir(Tail(obs))

\* Slip: the band checked on its upper side only.
EnRango_sin_minimo(ultimo_valor) == ultimo_valor <= RANGO_MAX

\* Lines 67-70: if not (0.5 <= ultimo_valor <= 30.0)
EnRango(ultimo_valor) == RANGO_MIN <= ultimo_valor /\ ultimo_valor <= RANGO_MAX

\* How a pass through the try block, or the whole call, ends.
Sale(como, causa, envuelve, obs) ==
    [sale |-> como, causa |-> causa, envuelve |-> envuelve, observaciones |-> obs]

\* Slip: the validation failures raised as a RequestException (or caught by a
\* broad except), so that they take the retry path.
ProcesarRespuesta_reintenta(r) ==
    IF r.tipo \in FallosTransporte
    THEN Sale("RequestException", r.tipo, "ninguna", <<>>)
    ELSE IF r.tipo = "sin_clave" \/ Len(r.observations) = 0
         THEN Sale("RequestException", "SinDatos", "ninguna", <<>>)
         ELSE LET observaciones == Convertir(r.observations) IN
              IF Len(observaciones) = 0
              THEN Sale("RequestException", "TodosInvalidos", "ninguna", <<>>)
              ELSE IF ~EnRango(observaciones[1].valor)
                   THEN Sale("RequestException", "FueraDeRango", "ninguna", <<>>)
                   ELSE Sale("return", "ninguna", "ninguna", observaciones)

\* The body of the try block for one response: what it returns or raises.
ProcesarRespuesta(r) ==
    IF r.tipo \in FallosTransporte
    THEN Sale("RequestException", r.tipo, "ninguna", <<>>)
    ELSE IF r.tipo = "sin_clave" \/ Len(r.observations) = 0
         THEN Sale("Exception", "SinDatos", "ninguna", <<>>)
         ELSE LET observaciones == Convertir(r.observations) IN
              IF Len(observaciones) = 0
              THEN Sale("Exception", "TodosInvalidos", "ninguna", <<>>)
              ELSE IF ~EnRango(observaciones[1].valor)
                   THEN Sale("Exception", "FueraDeRango", "ninguna", <<>>)
                   ELSE Sale("return", "ninguna", "ninguna", observaciones)

\* Slip: the last attempt also sleeps and goes round again.
HayReintento_siempre(i) == i < max_intentos

\* if intento < max_intentos - 1: sleep and go round again
HayReintento(i) == i < max_intentos - 1

\* What a response is, as the series source produced it: a transport failure
\* (by kind), a body without usable points, a body whose newest usable point
\* is outside 0.5 .. 30.0, or a body that can be used.
Usables(r) == SelectSeq(r.observations, LAMBDA o : o.disponible)

ClaseDeRespuesta(r) ==
    IF r.tipo \in FallosTransporte
    THEN r.tipo
    ELSE IF r.tipo = "sin_clave" \/ Usables(r) = <<>>
         THEN "sin_puntos"
         ELSE IF Usables(r)[1].valor < 50 \/ Usables(r)[1].valor > 3000
              THEN "fuera_de_banda"
              ELSE "utilizable"

SinError == [tipo |-> "ninguno", causa |-> "ninguna"]

Excepcion(t, c) == [tipo |-> t, causa |-> c]

-----------------------------------------------------------------------------
(* Notifier: enviar_telegram *)

TelegramConfigurado == env.token /\ env.chat

Clases == {"salud", "alerta", "error", "heartbeat"}

SinPosts == [k \in Clases |-> 0]

\* requests.post happens only past the configuration guard of line 103.
Enviar(k) == IF TelegramConfigurado THEN [posts EXCEPT ![k] = @ + 1] ELSE posts

\* Outcomes of requests.post + raise_for_status
ResultadosPost == {"enviado", "fallo_transporte", "no_2xx"}

-----------------------------------------------------------------------------
(* The run: main *)

\* The frame of a call of obtener_datos_fred: (intento, peticiones, esperas,
\* fallos, ultima, salida). It exists from the call until the caller's next
\* step; outside a call the six hold SinLlamada's values.
EnCurso == Sale("en_curso", "ninguna", "ninguna", <<>>)

SinLlamada == Sale("sin_llamada", "ninguna", "ninguna", <<>>)

Llamada == <<intento, peticiones, esperas, fallos, ultima, salida>>

NuevoMarco(s) ==
    /\ intento' = 0
    /\ peticiones' = 0
    /\ esperas' = 0
    /\ fallos' = 0
    /\ ultima' = "ninguna"
    /\ salida' = s

\* STATE_FILE as a run can find it: written by an earlier run or by hand.
ValoresArchivo == {50}

ArchivosIniciales ==
    {Ausente, Ilegible, Vacio, Incompleto}
    \cup {Snapshot(FechaHoy - 1, v) : v \in ValoresArchivo}

Entornos == [fred : BOOLEAN, token : BOOLEAN, chat : BOOLEAN]

\* Local state of a process that has just entered main().
Arranque(p) ==
    /\ pc = p
    /\ llamador = "main"
    /\ intento = 0
    /\ peticiones = 0
    /\ esperas = 0
    /\ fallos = 0
    /\ ultima = "ninguna"
    /\ salida = SinLlamada
    /\ datos = <<>>
    /\ estado_anterior = None
    /\ resultado = SinResultado
    /\ error = SinError
    /\ entregado = "sin_llamar"
    /\ posts = SinPosts
    /\ lecturas = 0
    /\ escrituras = 0
    /\ codigo = -1

Init ==
    /\ env \in Entornos
    /\ archivo \in ArchivosIniciales
    /\ archivo0 = archivo
    /\ Arranque("inicio")

\* The credential test dropped: the run goes on to the self-check.
ValidarConfiguracion_omitida ==
    /\ pc = "inicio"
    /\ pc' = "salud" /\ codigo' = codigo
    /\ UNCHANGED <<env, archivo, archivo0, llamador, intento, peticiones, esperas,
                   fallos, ultima, salida, datos, estado_anterior, resultado,
                   error, entregado, posts, lecturas, escrituras>>

\* Lines 338-341: the data-source credential is required.
ValidarConfiguracion ==
    /\ pc = "inicio"
    /\ IF ~env.fred
       THEN pc' = "fin" /\ codigo' = 1
       ELSE pc' = "salud" /\ codigo' = codigo
    /\ UNCHANGED <<env, archivo, archivo0, llamador, intento, peticiones, esperas,
                   fallos, ultima, salida, datos, estado_anterior, resultado,
                   error, entregado, posts, lecturas, escrituras>>

\* The self-check without its look at the state file (lines 269-283).
verificar_salud_sistema_sin_archivo ==
    /\ pc = "salud"
    /\ LET problemas == ~env.fred \/ ~env.token \/ ~env.chat IN
       posts' = IF problemas THEN Enviar("salud") ELSE posts
    /\ lecturas' = lecturas
    /\ NuevoMarco(EnCurso)
    /\ pc' = "fetch"
    /\ UNCHANGED <<env, archivo, archivo0, llamador, datos, estado_anterior,
                   resultado, error, entregado, escrituras, codigo>>

\* Line 348: verificar_salud_sistema; main then calls obtener_datos_fred
\* (line 353). The staleness of 'ultima_ejecucion'
\* depends on the clock, so a file that can hold the key can be stale or not.
verificar_salud_sistema ==
    /\ pc = "salud"
    /\ \E estancado \in (IF archivo.clase \in {"snapshot", "incompleto"}
                         THEN BOOLEAN ELSE {FALSE}) :
          LET problemas == ~env.fred \/ ~env.token \/ ~env.chat \/ estancado IN
          posts' = IF problemas THEN Enviar("salud") ELSE posts
    /\ lecturas' = IF archivo.clase # "ausente" THEN lecturas + 1 ELSE lecturas
    /\ NuevoMarco(EnCurso)
    /\ pc' = "fetch"
    /\ UNCHANGED <<env, archivo, archivo0, llamador, datos, estado_anterior,
                   resultado, error, entregado, escrituras, codigo>>

\* obtener_datos_fred hands its result to its caller: main (line 353) goes on to
\* line 354, enviar_heartbeat_semanal (line 306) to its message.
Devuelve(s) ==
    /\ salida' = s
    /\ IF llamador = "main"
       THEN /\ datos' = s.observaciones
            /\ pc' = "analizar"
       ELSE /\ datos' = datos
            /\ pc' = "hb_enviar"
    /\ UNCHANGED <<error, codigo>>

\* An exception leaves obtener_datos_fred: main catches it at line 398,
\* enviar_heartbeat_semanal at line 328 (and main then returns 0).
Propaga(s) ==
    /\ salida' = s
    /\ datos' = datos
    /\ IF llamador = "main"
       THEN /\ error' = Excepcion(s.sale, s.causa)
            /\ pc' = "error"
            /\ codigo' = codigo
       ELSE /\ error' = error
            /\ pc' = "fin"
            /\ codigo' = 0

\* The for loop ran out without a return or a raise: the function returns None.
\* main fails on len(None) at line 354; the heartbeat skips its message.
DevuelveNone ==
    /\ salida' = Sale("None", "ninguna", "ninguna", <<>>)
    /\ datos' = datos
    /\ IF llamador = "main"
       THEN /\ error' = Excepcion("TypeError", "ninguna")
            /\ pc' = "error"
            /\ codigo' = codigo
       ELSE /\ error' = error
            /\ pc' = "fin"
            /\ codigo' = 0

\* One iteration of the loop of obtener_datos_fred (lines 36-81).
obtener_datos_fred(r) ==
    LET s == ProcesarRespuesta(r) IN
    /\ pc = "fetch"
    /\ intento < max_intentos
    /\ peticiones' = peticiones + 1
    /\ ultima' = ClaseDeRespuesta(r)
    /\ IF s.sale = "return"
       THEN /\ Devuelve(s)
            /\ UNCHANGED <<intento, esperas, fallos>>
       ELSE IF s.sale = "Exception"
       THEN /\ Propaga(s)
            /\ UNCHANGED <<intento, esperas, fallos>>
       ELSE /\ fallos' = fallos + 1
            /\ IF HayReintento(intento)
               THEN /\ esperas' = esperas + 1
                    /\ intento' = intento + 1
                    /\ IF intento + 1 < max_intentos
                       THEN UNCHANGED <<salida, datos, pc, error, codigo>>
                       ELSE DevuelveNone
               ELSE /\ Propaga(Sale("Exception", "TrasIntentos", s.causa, <<>>))
                    /\ UNCHANGED <<intento, esperas>>
    /\ UNCHANGED <<env, archivo, archivo0, llamador, estado_anterior, resultado,
                   entregado, posts, lecturas, escrituras>>

Intento == \E r \in Respuestas(Dias(llamador)) : obtener_datos_fred(r)

\* Lines 358-366: cargar_estado, the print of the prior value, analizar_datos.
\* The print of line 360 indexes 'fecha' and 'valor' of any state that is true.
CargarYAnalizar ==
    /\ pc = "analizar"
    /\ lecturas' = IF archivo.clase # "ausente" THEN lecturas + 1 ELSE lecturas
    /\ estado_anterior' = cargar_estado(archivo)
    /\ LET previo == cargar_estado(archivo) IN
       IF ~Falsy(previo) /\ previo.clase # "snapshot"
       THEN /\ resultado' = resultado
            /\ error' = Excepcion("KeyError", "ninguna")
            /\ pc' = "error"
       ELSE LET res == analizar_datos(datos, previo) IN
            /\ resultado' = res
            /\ IF res.excepcion # "ninguna"
               THEN error' = Excepcion(res.excepcion, "ninguna") /\ pc' = "error"
               ELSE error' = error /\ pc' = "notificar"
    /\ NuevoMarco(SinLlamada)
    /\ UNCHANGED <<env, archivo, archivo0, llamador, datos, entregado, posts,
                   escrituras, codigo>>

\* Slip: enviar_telegram without its try/except, a failed post reaching the
\* handler of main.
Notificar_propaga ==
    /\ pc = "notificar"
    /\ IF resultado.tiene_alertas /\ resultado.mensaje.tipo # "None"
       THEN IF TelegramConfigurado
            THEN /\ entregado' \in ResultadosPost
                 /\ posts' = Enviar("alerta")
            ELSE /\ entregado' = "sin_configurar"
                 /\ posts' = posts
       ELSE /\ entregado' = "sin_alerta"
            /\ posts' = posts
    /\ IF entregado' \in {"fallo_transporte", "no_2xx"}
       THEN error' = Excepcion("RequestException", entregado') /\ pc' = "error"
       ELSE error' = error /\ pc' = "guardar"
    /\ UNCHANGED <<env, archivo, archivo0, llamador, intento, peticiones, esperas,
                   fallos, ultima, salida, datos, estado_anterior, resultado,
                   lecturas, escrituras, codigo>>

\* Lines 369-381, with enviar_telegram (lines 101-127): one post, its failure
\* caught and reported as False.
Notificar ==
    /\ pc = "notificar"
    /\ IF resultado.tiene_alertas /\ resultado.mensaje.tipo # "None"
       THEN IF TelegramConfigurado
            THEN /\ entregado' \in ResultadosPost
                 /\ posts' = Enviar("alerta")
            ELSE /\ entregado' = "sin_configurar"
                 /\ posts' = posts
       ELSE /\ entregado' = "sin_alerta"
            /\ posts' = posts
    /\ pc' = "guardar"
    /\ UNCHANGED <<env, archivo, archivo0, llamador, intento, peticiones, esperas,
                   fallos, ultima, salida, datos, estado_anterior, resultado,
                   error, lecturas, escrituras, codigo>>

\* Lines 384-389, with guardar_estado (lines 95-98).
guardar_estado ==
    /\ pc = "guardar"
    /\ archivo' = Snapshot(datos[1].fecha, datos[1].valor)
    /\ escrituras' = escrituras + 1
    /\ pc' = "heartbeat"
    /\ UNCHANGED <<env, archivo0, llamador, intento, peticiones, esperas, fallos,
                   ultima, salida, datos, estado_anterior, resultado, error,
                   entregado, posts, lecturas, codigo>>

\* Line 393, enviar_heartbeat_semanal up to its fetch (lines 300-306): on a
\* Friday it calls obtener_datos_fred itself; on other days main returns 0.
enviar_heartbeat_semanal ==
    /\ pc = "heartbeat"
    /\ \E viernes \in BOOLEAN :
          IF viernes
          THEN /\ llamador' = "heartbeat"
               /\ NuevoMarco(EnCurso)
               /\ pc' = "fetch"
               /\ codigo' = codigo
          ELSE /\ pc' = "fin"
               /\ codigo' = 0
               /\ UNCHANGED <<llamador, intento, peticiones, esperas, fallos,
                              ultima, salida>>
    /\ UNCHANGED <<env, archivo, archivo0, datos, estado_anterior, resultado,
                   error, entregado, posts, lecturas, escrituras>>

\* Lines 307-327 and 395-396: the heartbeat message, then main returns 0.
EnviarHeartbeat ==
    /\ pc = "hb_enviar"
    /\ posts' = Enviar("heartbeat")
    /\ pc' = "fin"
    /\ codigo' = 0
    /\ NuevoMarco(SinLlamada)
    /\ UNCHANGED <<env, archivo, archivo0, llamador, datos, estado_anterior,
                   resultado, error, entregado, lecturas, escrituras>>

\* Slip: the handler of main returns 0.
ManejarError_cero ==
    /\ pc = "error"
    /\ posts' = Enviar("error")
    /\ pc' = "fin"
    /\ codigo' = 0
    /\ NuevoMarco(SinLlamada)
    /\ UNCHANGED <<env, archivo, archivo0, llamador, datos, estado_anterior,
                   resultado, error, entregado, lecturas, escrituras>>

\* Lines 398-408: the handler of main reports the error and returns 1.
ManejarError ==
    /\ pc = "error"
    /\ posts' = Enviar("error")
    /\ pc' = "fin"
    /\ codigo' = 1
    /\ NuevoMarco(SinLlamada)
    /\ UNCHANGED <<env, archivo, archivo0, llamador, datos, estado_anterior,
                   resultado, error, entregado, lecturas, escrituras>>

\* The scheduler starts the next run: a new process, the same environment
\* and the state file the last run left.
NuevaEjecucion ==
    /\ pc = "fin"
    /\ archivo0' = archivo
    /\ pc' = "inicio"
    /\ llamador' = "main"
    /\ intento' = 0
    /\ peticiones' = 0
    /\ esperas' = 0
    /\ fallos' = 0
    /\ ultima' = "ninguna"
    /\ salida' = SinLlamada
    /\ datos' = <<>>
    /\ estado_anterior' = None
    /\ resultado' = SinResultado
    /\ error' = SinError
    /\ entregado' = "sin_llamar"
    /\ posts' = SinPosts
    /\ lecturas' = 0
    /\ escrituras' = 0
    /\ codigo' = -1
    /\ UNCHANGED <<env, archivo>>

Next ==
    \/ ValidarConfiguracion
    \/ verificar_salud_sistema
    \/ Intento
    \/ CargarYAnalizar
    \/ Notificar
    \/ guardar_estado
    \/ enviar_heartbeat_semanal
    \/ EnviarHeartbeat
    \/ ManejarError
    \/ NuevaEjecucion

Spec == Init /\ [][Next]_vars

\* The runs of main on a machine that starts without a state file.
InitLimpio ==
    /\ env \in Entornos
    /\ archivo = Ausente
    /\ archivo0 = archivo
    /\ Arranque("inicio")

SpecLimpio == InitLimpio /\ [][Next]_vars

-----------------------------------------------------------------------------
(* The evaluator on its own: analizar_datos applied to every window of up to *)
(* MaxObs observations and every prior state of the sets below.              *)

\* Five values up to the high threshold (a 5-day run can stay at or below
\* it), one between the thresholds, and the critical threshold itself.
ValoresEval == {340, 360, 380, 440, 450, 470, 600}

\* Prior values: the same, 0, and 438 (0.12 below 4.5).
ValoresPrevios == ValoresEval \cup {0, 438}

Ventana(vs) == [i \in 1..Len(vs) |-> [fecha |-> FechaHoy - (i - 1), valor |-> vs[i]]]

VentanasEval == {Ventana(vs) : vs \in SeqHasta(ValoresEval, MaxObs)}

PreviosEval ==
    {None, Vacio, Incompleto} \cup {Snapshot(FechaHoy - 1, v) : v \in ValoresPrevios}

InitEval ==
    /\ env = [fred |-> TRUE, token |-> TRUE, chat |-> TRUE]
    /\ archivo = Ausente
    /\ archivo0 = Ausente
    /\ Arranque("prueba")

Evaluar ==
    /\ pc = "prueba"
    /\ \E d \in VentanasEval, p \in PreviosEval :
          /\ datos' = d
          /\ estado_anterior' = p
          /\ resultado' = analizar_datos(d, p)
    /\ pc' = "evaluado"
    /\ UNCHANGED <<env, archivo, archivo0, llamador, Llamada, error, entregado,
                   posts, lecturas, escrituras, codigo>>

NextEval == Evaluar

SpecEval == InitEval /\ [][NextEval]_vars

\* Consecutive runs over the same observations: what main does with the state
\* file and the evaluator between a successful fetch and the save (lines
\* 357-389), the fetch having returned the window. The notification is left
\* out: it changes neither the result nor the file.
ArchivosRepite == {Ausente, Snapshot(FechaHoy - 1, 438)}

InitRepite ==
    /\ env = [fred |-> TRUE, token |-> TRUE, chat |-> TRUE]
    /\ archivo \in ArchivosRepite
    /\ archivo0 = archivo
    /\ Arranque("primera")

\* A run that loads the prior state, evaluates the window and saves its
\* newest observation.
PrimeraEjecucion ==
    /\ pc = "primera"
    /\ \E d \in VentanasEval \ {<<>>} :
          /\ datos' = d
          /\ estado_anterior' = cargar_estado(archivo)
          /\ resultado' = analizar_datos(d, cargar_estado(archivo))
          /\ archivo' = Snapshot(d[1].fecha, d[1].valor)
    /\ pc' = "guardado"
    /\ UNCHANGED <<env, archivo0, llamador, Llamada, error, entregado,
                   posts, lecturas, escrituras, codigo>>

\* A following run whose fetch returns the same observations.
SiguienteEjecucion ==
    /\ pc \in {"guardado", "repetido"}
    /\ archivo0' = archivo
    /\ datos' = datos
    /\ estado_anterior' = cargar_estado(archivo)
    /\ resultado' = analizar_datos(datos, cargar_estado(archivo))
    /\ archivo' = Snapshot(datos[1].fecha, datos[1].valor)
    /\ pc' = "repetido"
    /\ UNCHANGED <<env, llamador, Llamada, error, entregado,
                   posts, lecturas, escrituras, codigo>>

NextRepite ==
    \/ PrimeraEjecucion
    \/ SiguienteEjecucion

SpecRepite == InitRepite /\ [][NextRepite]_vars

-----------------------------------------------------------------------------
(* Claims on the evaluator, checked under SpecEval *)

Evaluado == pc = "evaluado" /\ datos # <<>>

ConPrevio == Evaluado /\ estado_anterior.clase = "snapshot"

ValorActual == datos[1].valor

ValorPrevio == estado_anterior.valor

\* The kinds of the conditions listed in the returned message.
Disparadas ==
    {resultado.mensaje.alertas[i].tipo : i \in 1..Len(resultado.mensaje.alertas)}

DeTendencia ==
    {"TENDENCIA_ALCISTA_SOSTENIDA", "TENDENCIA_BAJISTA_SOSTENIDA", "TENDENCIA_ALCISTA"}

SinAlerta ==
    /\ resultado.excepcion = "ninguna"
    /\ resultado.tiene_alertas = FALSE
    /\ resultado.mensaje.tipo = "None"
    /\ resultado.es_critico = FALSE

\* The 5 newest values, newest first: v(1) is today's.
V(i) == datos[i].valor

CadaDiaMasAlto == V(1) > V(2) /\ V(2) > V(3) /\ V(3) > V(4) /\ V(4) > V(5)

CadaDiaMasBajo == V(1) < V(2) /\ V(2) < V(3) /\ V(3) < V(4) /\ V(4) < V(5)

Subidas ==
    (IF V(1) > V(2) THEN 1 ELSE 0) + (IF V(2) > V(3) THEN 1 ELSE 0)
    + (IF V(3) > V(4) THEN 1 ELSE 0) + (IF V(4) > V(5) THEN 1 ELSE 0)

SinPatron ==
    Len(datos) < 5 \/ (~CadaDiaMasAlto /\ ~CadaDiaMasBajo /\ Subidas < 3)

\* C1: with a prior snapshot, a change below the daily threshold, current and
\* prior both below the high threshold and no trend pattern, analizar_datos
\* returns no alert: (False, None, False).
C1_SinCondiciones ==
    (/\ ConPrevio
     /\ Abs(ValorActual - ValorPrevio) < UMBRAL_CAMBIO_DIARIO
     /\ ValorActual < UMBRAL_SPREAD_ALTO
     /\ ValorPrevio < UMBRAL_SPREAD_ALTO
     /\ SinPatron)
    => SinAlerta

C1_Testigo ==
    /\ ConPrevio
    /\ Len(datos) >= 5
    /\ ValorActual # ValorPrevio
    /\ Abs(ValorActual - ValorPrevio) < UMBRAL_CAMBIO_DIARIO
    /\ ValorActual < UMBRAL_SPREAD_ALTO
    /\ ValorPrevio < UMBRAL_SPREAD_ALTO
    /\ SinPatron
    /\ Subidas = 2
    /\ SinAlerta

\* C2: with observations and no prior snapshot, analizar_datos returns
\* (True, the monitoring-started message with the current date and value,
\* False), whatever the current value and whatever the window.
C2_InicioDeMonitoreo ==
    (Evaluado /\ estado_anterior = None)
    => /\ resultado.excepcion = "ninguna"
       /\ resultado.tiene_alertas = TRUE
       /\ resultado.mensaje.tipo = "inicio"
       /\ resultado.mensaje.actual = ValorActual
       /\ resultado.mensaje.fecha = datos[1].fecha
       /\ resultado.mensaje.alertas = <<>>
       /\ resultado.es_critico = FALSE

C2_Testigo ==
    /\ Evaluado
    /\ estado_anterior = None
    /\ ValorActual >= UMBRAL_SPREAD_CRITICO
    /\ Len(datos) >= 5
    /\ CadaDiaMasAlto
    /\ resultado.tiene_alertas = TRUE
    /\ resultado.mensaje.tipo = "inicio"
    /\ resultado.es_critico = FALSE

\* C3 as stated: whenever the newest value equals the critical threshold the
\* result holds the critical-level condition and is critical, whatever the
\* prior state.
C3_Original ==
    (Evaluado /\ resultado.excepcion = "ninguna" /\ ValorActual = UMBRAL_SPREAD_CRITICO)
    => ("NIVEL_CRITICO" \in Disparadas /\ resultado.es_critico = TRUE)

\* C3, amended: with a prior snapshot, a newest value equal to the critical
\* threshold yields an alert with the critical-level condition and
\* es_critico = True, whatever the change from the prior value.
C3_CriticoEnElUmbral ==
    (ConPrevio /\ ValorActual = UMBRAL_SPREAD_CRITICO)
    => /\ resultado.tiene_alertas = TRUE
       /\ "NIVEL_CRITICO" \in Disparadas
       /\ resultado.es_critico = TRUE

C3_Testigo ==
    /\ ConPrevio
    /\ ValorActual = UMBRAL_SPREAD_CRITICO
    /\ ValorPrevio = ValorActual
    /\ "NIVEL_CRITICO" \in Disparadas
    /\ "SUBIDA_BRUSCA" \notin Disparadas
    /\ resultado.es_critico = TRUE

\* C4: with a prior snapshot below the high threshold and a current value
\* equal to it (the high threshold below the critical one), the conditions
\* include level-high and crossing-up, and neither crossing-down nor a
\* critical condition of the level rules.
C4_AltoEnElUmbral ==
    (/\ ConPrevio
     /\ ValorPrevio < UMBRAL_SPREAD_ALTO
     /\ ValorActual = UMBRAL_SPREAD_ALTO
     /\ UMBRAL_SPREAD_ALTO < UMBRAL_SPREAD_CRITICO)
    => /\ "NIVEL_ALTO" \in Disparadas
       /\ "CRUCE_ALTO_ARRIBA" \in Disparadas
       /\ "CRUCE_ALTO_ABAJO" \notin Disparadas
       /\ "NIVEL_CRITICO" \notin Disparadas
       /\ "CRUCE_CRITICO" \notin Disparadas

C4_Testigo ==
    /\ ConPrevio
    /\ ValorPrevio = 440
    /\ ValorActual = UMBRAL_SPREAD_ALTO
    /\ Disparadas = {"NIVEL_ALTO", "CRUCE_ALTO_ARRIBA"}

\* The trend condition of the message and the flag it carries.
TendenciasDisparadas ==
    {resultado.mensaje.alertas[i] : i \in {j \in 1..Len(resultado.mensaje.alertas) :
                                         resultado.mensaje.alertas[j].tipo \in DeTendencia}}

\* C5 as stated: five newest values rising from oldest to newest fire the
\* downtrend-labeled condition, which does not set the critical flag.
C5_Original ==
    (ConPrevio /\ Len(datos) >= 5 /\ CadaDiaMasAlto)
    => TendenciasDisparadas = {Alerta("TENDENCIA_BAJISTA_SOSTENIDA", FALSE)}

\* C5, amended: with a prior snapshot and five newest values rising from
\* oldest to newest, the one trend condition fired is the uptrend-labeled
\* one (TENDENCIA ALCISTA SOSTENIDA), and it sets the critical flag exactly
\* when the newest value is above the high threshold.
C5_SubidaEsAlcista ==
    (ConPrevio /\ Len(datos) >= 5 /\ CadaDiaMasAlto)
    => TendenciasDisparadas =
          {Alerta("TENDENCIA_ALCISTA_SOSTENIDA", ValorActual > UMBRAL_SPREAD_ALTO)}

C5_Testigo ==
    /\ ConPrevio
    /\ Len(datos) >= 5
    /\ CadaDiaMasAlto
    /\ ValorActual <= UMBRAL_SPREAD_ALTO
    /\ TendenciasDisparadas = {Alerta("TENDENCIA_ALCISTA_SOSTENIDA", FALSE)}

-----------------------------------------------------------------------------
(* Claims on the fetcher and on the run, checked under Spec *)

Terminada == salida.sale \in {"return", "Exception", "None"}

\* C7: one call of obtener_datos_fred makes at most 3 requests; it sleeps
\* once after each failed attempt that another attempt follows and never
\* after its last attempt; a usable response on attempt 1, 2 or 3 is returned;
\* after 3 transport failures the call raises the error that wraps the last
\* cause, and it never returns without observations.
C7_TresIntentos ==
    /\ peticiones <= 3
    /\ salida.sale = "en_curso" => (esperas = peticiones /\ fallos = peticiones)
    /\ Terminada => (peticiones >= 1 /\ esperas = peticiones - 1)
    /\ (Terminada /\ ultima = "utilizable")
       => (salida.sale = "return" /\ salida.observaciones # <<>>
           /\ fallos = peticiones - 1)
    /\ (Terminada /\ ultima \in FallosTransporte)
       => (/\ fallos = 3
           /\ peticiones = 3
           /\ salida.sale = "Exception"
           /\ salida.causa = "TrasIntentos"
           /\ salida.envuelve = ultima)
    /\ salida.sale = "return" => ultima = "utilizable"
    /\ salida.sale # "None"

C7_Testigo ==
    /\ llamador = "main"
    /\ fallos = 3
    /\ peticiones = 3
    /\ esperas = 2
    /\ salida.sale = "Exception"
    /\ salida.causa = "TrasIntentos"
    /\ salida.envuelve = "Timeout"
    /\ pc = "error"

\* C8: a response without usable points, or whose newest usable value is
\* outside 0.5 .. 30.0, ends the call on that attempt with the validation
\* failure: the call is over (no further request) and no sleep follows, on
\* whichever attempt it comes.
C8_ValidacionSinReintento ==
    ultima \in {"sin_puntos", "fuera_de_banda"}
    => /\ salida.sale = "Exception"
       /\ salida.causa \in (IF ultima = "sin_puntos"
                            THEN {"SinDatos", "TodosInvalidos"}
                            ELSE {"FueraDeRango"})
       /\ salida.envuelve = "ninguna"
       /\ pc # "fetch"
       /\ peticiones = fallos + 1
       /\ esperas = fallos

C8_Testigo ==
    /\ llamador = "main"
    /\ ultima = "fuera_de_banda"
    /\ peticiones = 3
    /\ esperas = 2
    /\ salida.sale = "Exception"
    /\ salida.causa = "FueraDeRango"

\* The run's try block ended in an exception.
EjecucionFallida == error # SinError

\* C9: a run whose main fetch fails (3 transport failures, no usable points,
\* newest value out of range) or whose prior state makes the evaluation
\* raise ends in main's handler: STATE_FILE is as it was when the run
\* started, nothing was written, and the exit code is 1.
C9_FalloNoGuarda ==
    /\ (llamador = "main" /\ Terminada /\ ultima # "utilizable") => EjecucionFallida
    /\ (datos # <<>> /\ estado_anterior.clase = "incompleto") => EjecucionFallida
    /\ EjecucionFallida
       => /\ pc \in {"error", "fin"}
          /\ archivo = archivo0
          /\ escrituras = 0
          /\ codigo = (IF pc = "fin" THEN 1 ELSE -1)

C9_Testigo ==
    /\ pc = "fin"
    /\ error = Excepcion("Exception", "TrasIntentos")
    /\ archivo0.clase = "snapshot"
    /\ archivo = archivo0
    /\ escrituras = 0
    /\ codigo = 1

\* The run is past the save of line 389.
TrasGuardar ==
    \/ pc \in {"heartbeat", "hb_enviar", "fin"}
    \/ (pc = "fetch" /\ llamador = "heartbeat")

\* C10: once the fetch has succeeded and analizar_datos has returned, the run
\* saves the date and value of the newest fetched observation and exits 0,
\* whether the alert was sent, failed in transport, got a non-2xx answer or
\* was skipped for lack of configuration; the alert is posted at most once.
C10_NotificacionNoBloquea ==
    /\ resultado.excepcion = "ninguna"
       => /\ pc \in {"notificar", "guardar"} \/ TrasGuardar
          /\ error = SinError
          /\ TrasGuardar
             => /\ archivo = Snapshot(datos[1].fecha, datos[1].valor)
                /\ escrituras = 1
          /\ pc = "fin" => codigo = 0
    /\ posts["alerta"] <= 1
    /\ entregado \in ResultadosPost => posts["alerta"] = 1
    /\ entregado \notin ResultadosPost => posts["alerta"] = 0

C10_Testigo ==
    /\ pc = "fin"
    /\ resultado.excepcion = "ninguna"
    /\ entregado = "fallo_transporte"
    /\ posts["alerta"] = 1
    /\ archivo = Snapshot(datos[1].fecha, datos[1].valor)
    /\ archivo # archivo0
    /\ codigo = 0

\* C11 as stated: whatever STATE_FILE held at the start that is not a
\* well-formed snapshot, a run whose fetch succeeds raises the
\* monitoring-started alert, saves the new snapshot and exits 0.
C11_Original ==
    (pc = "fin" /\ env.fred /\ datos # <<>> /\ archivo0.clase # "snapshot")
    => /\ resultado.excepcion = "ninguna"
       /\ resultado.tiene_alertas = TRUE
       /\ resultado.mensaje.tipo = "inicio"
       /\ archivo = Snapshot(datos[1].fecha, datos[1].valor)
       /\ codigo = 0

\* C12: without the data-source credential the run ends at once with exit
\* code 1: no request to the series source, no post to the chat endpoint (the
\* self-check's included), and the state file neither read nor written.
C12_SinCredencialNoHaceNada ==
    ~env.fred
    => /\ pc \in {"inicio", "fin"}
       /\ pc = "fin" => codigo = 1
       /\ peticiones = 0 /\ salida = SinLlamada /\ datos = <<>>
       /\ posts = SinPosts /\ entregado = "sin_llamar"
       /\ lecturas = 0 /\ escrituras = 0
       /\ estado_anterior = None
       /\ archivo = archivo0

\* A run without the credential has ended, with the chat endpoint configured
\* and a state file on disk that the self-check would have opened.
C12_Testigo ==
    /\ ~env.fred /\ TelegramConfigurado
    /\ archivo0.clase = "snapshot"
    /\ pc = "fin" /\ codigo = 1

\* C13 as stated: a run that passes the configuration check and exits 0 has
\* read the state file exactly once and written it exactly once.
C13_Original ==
    (pc = "fin" /\ codigo = 0) => (lecturas = 1 /\ escrituras = 1)

\* C13: a run that exits 0 has written the state file exactly once; it has
\* opened it for reading twice when the file existed at the start (the
\* self-check and the load) and never when it did not.
C13_DosLecturasUnaEscritura ==
    (pc = "fin" /\ codigo = 0)
    => /\ escrituras = 1
       /\ lecturas = (IF archivo0.clase = "ausente" THEN 0 ELSE 2)

\* A run over an existing snapshot has ended with exit code 0, its heartbeat
\* sent, after two reads and one write.
C13_Testigo ==
    /\ pc = "fin" /\ codigo = 0
    /\ archivo0.clase = "snapshot"
    /\ posts["heartbeat"] = 1
    /\ lecturas = 2 /\ escrituras = 1

\* The conditions that never set the critical flag.
NuncaCriticas ==
    {"SUBIDA_BRUSCA", "BAJADA_BRUSCA", "NIVEL_ALTO", "CRUCE_ALTO_ARRIBA",
     "CRUCE_ALTO_ABAJO", "TENDENCIA_BAJISTA_SOSTENIDA", "TENDENCIA_ALCISTA"}

\* C14: with a prior snapshot, es_critico is true exactly when the current
\* value is at or above the critical threshold, or there are at least 5
\* observations, the 5 newest rise day after day and the current value is
\* strictly above the high threshold; the magnitude, level-high, high-crossing,
\* downtrend and moderate-uptrend conditions never carry the flag.
C14_CriticoSoloPorNivelOTendencia ==
    ConPrevio
    => /\ resultado.excepcion = "ninguna"
       /\ resultado.es_critico
            <=> \/ ValorActual >= UMBRAL_SPREAD_CRITICO
                \/ /\ Len(datos) >= DIAS_TENDENCIA
                   /\ CadaDiaMasAlto
                   /\ ValorActual > UMBRAL_SPREAD_ALTO
       /\ \A i \in 1..Len(resultado.mensaje.alertas) :
             resultado.mensaje.alertas[i].tipo \in NuncaCriticas
             => ~resultado.mensaje.alertas[i].critico

\* Five values rising day after day to a value between the two thresholds:
\* the uptrend alone makes the alert critical.
C14_Testigo ==
    /\ ConPrevio /\ Len(datos) >= DIAS_TENDENCIA /\ CadaDiaMasAlto
    /\ ValorActual > UMBRAL_SPREAD_ALTO /\ ValorActual < UMBRAL_SPREAD_CRITICO
    /\ resultado.es_critico

\* The dates an observation of a response can carry.
FechasDeRespuesta == {FechaHoy - (i - 1) : i \in 1..MaxCrudo}

\* C15: starting without a state file, over any sequence of runs, the file is
\* absent or holds a snapshot whose value is inside 0.5 .. 30.0 and whose date
\* and value are those of the newest observation of a fetch (this run's, or an
\* earlier run's, left in place); so the prior value that analizar_datos gets
\* is never 0 and the zero guard of the percentage is never taken.
C15_SnapshotSiempreEnRango ==
    /\ archivo.clase \in {"ausente", "snapshot"}
    /\ archivo0.clase \in {"ausente", "snapshot"}
    /\ archivo.clase = "snapshot"
       => /\ EnRango(archivo.valor)
          /\ archivo.fecha \in FechasDeRespuesta
          /\ \/ archivo = archivo0
             \/ /\ datos # <<>>
                /\ archivo = Snapshot(datos[1].fecha, datos[1].valor)
    /\ archivo0.clase = "snapshot" => EnRango(archivo0.valor)
    /\ estado_anterior.clase \in {"None", "snapshot"}
    /\ estado_anterior.clase = "snapshot"
       => /\ estado_anterior = archivo0
          /\ EnRango(estado_anterior.valor)
          /\ ~GuardaCero(estado_anterior.valor)

\* A later run has loaded the snapshot an earlier run saved, evaluated against
\* it and replaced it with a different one.
C15_Testigo ==
    /\ pc = "fin" /\ codigo = 0
    /\ archivo0.clase = "snapshot"
    /\ estado_anterior = archivo0
    /\ resultado.excepcion = "ninguna" /\ resultado.mensaje.tipo = "alerta"
    /\ archivo = Snapshot(datos[1].fecha, datos[1].valor)
    /\ archivo # archivo0

\* The conditions that compare the current value with the prior one.
DeCambio ==
    {"SUBIDA_BRUSCA", "BAJADA_BRUSCA", "CRUCE_ALTO_ARRIBA", "CRUCE_ALTO_ABAJO",
     "CRUCE_CRITICO"}

Repetida == pc = "repetido"

\* C16: a run that follows a run which saved its snapshot and fetches the
\* same observations evaluates against the newest observation itself: the
\* change is 0, no magnitude and no crossing condition fires, and there is an
\* alert exactly when the newest value is at or above the high threshold or
\* the 5 newest values show a trend pattern.
C16_RepeticionSoloNivelOTendencia ==
    Repetida
    => /\ estado_anterior = Snapshot(datos[1].fecha, datos[1].valor)
       /\ archivo = estado_anterior
       /\ resultado.excepcion = "ninguna"
       /\ Disparadas \cap DeCambio = {}
       /\ resultado.tiene_alertas
            <=> \/ ValorActual >= UMBRAL_SPREAD_ALTO
                \/ /\ Len(datos) >= DIAS_TENDENCIA
                   /\ CadaDiaMasAlto \/ CadaDiaMasBajo \/ Subidas >= 3
       /\ resultado.tiene_alertas
          => resultado.mensaje.tipo = "alerta" /\ resultado.mensaje.cambio = 0

\* A repeated run over a window at the critical threshold whose only alert
\* conditions are the level and the trend.
C16_Testigo ==
    /\ Repetida
    /\ ValorActual = UMBRAL_SPREAD_CRITICO
    /\ Len(datos) >= DIAS_TENDENCIA /\ CadaDiaMasAlto
    /\ Disparadas = {"NIVEL_CRITICO", "TENDENCIA_ALCISTA_SOSTENIDA"}
    /\ resultado.mensaje.cambio = 0

====
